---- MODULE Spec2Model ----
(***************************************************************************)
(* EUR-Lex trade scraper: the keyword matcher (src/src/matcher.py), the    *)
(* page loop of the web client (src/src/adapters/eurlex_web.py) and the    *)
(* crawl run with its two JSON stores (src/src/scraper.py).                *)
(*                                                                         *)
(* Texts are sequences of one-character strings.  Dates are day ordinals   *)
(* counted from 2024-01-01 (ordinal 0); their ISO form "YYYY-MM-DD" is the *)
(* triple <<y, m, d>>.  A dict is a function whose DOMAIN is its key set.  *)
(***************************************************************************)
EXTENDS Integers, Sequences, FiniteSets, TLC

(***************************************************************************)
(* Bounds of the model.                                                    *)
(***************************************************************************)
\* scrape() calls per behaviour (the logical clock `now` stops there)
MaxRuns == 2
\* result pages the search site has for the query (a later page parses to no record)
MaxFeedPages == 2
\* words in the title of a record the matcher is checked on
MaxWords == 3
\* documents in the corpus that clean and merge are checked on
MaxCorpus == 2
\* candidates in the batch that merge is checked on
MaxBatch == 2

(***************************************************************************)
(* Calendar: datetime.date, strptime("%Y-%m-%d"), isoformat, timedelta.    *)
(***************************************************************************)
FirstYear == 2024
LastYear == 2026
Years == FirstYear..LastYear

IsLeap(y) == (y % 4 = 0 /\ y % 100 # 0) \/ y % 400 = 0

DaysInMonth(y, m) ==
    IF m = 2 THEN (IF IsLeap(y) THEN 29 ELSE 28)
    ELSE IF m \in {4, 6, 9, 11} THEN 30 ELSE 31

DaysInYear(y) == IF IsLeap(y) THEN 366 ELSE 365

RECURSIVE DaysBeforeYear(_)
DaysBeforeYear(y) == IF y <= FirstYear THEN 0 ELSE DaysBeforeYear(y - 1) + DaysInYear(y - 1)

RECURSIVE DaysBeforeMonth(_, _)
DaysBeforeMonth(y, m) == IF m <= 1 THEN 0 ELSE DaysBeforeMonth(y, m - 1) + DaysInMonth(y, m - 1)

\* date(y, m, d): the ordinal of a calendar date
date(y, m, d) == DaysBeforeYear(y) + DaysBeforeMonth(y, m) + (d - 1)

\* a triple that names a day of the calendar
IsCalendarDate(ymd) ==
    /\ Len(ymd) = 3
    /\ ymd[1] \in Years
    /\ ymd[2] \in 1..12
    /\ ymd[3] \in 1..DaysInMonth(ymd[1], ymd[2])

YearOf(n) == CHOOSE y \in Years : DaysBeforeYear(y) <= n /\ n < DaysBeforeYear(y) + DaysInYear(y)

MonthOf(n) ==
    LET y == YearOf(n)
        r == n - DaysBeforeYear(y)
    IN  CHOOSE m \in 1..12 : DaysBeforeMonth(y, m) <= r /\ r < DaysBeforeMonth(y, m) + DaysInMonth(y, m)

\* date.isoformat() / strftime('%Y-%m-%d'): ordinal -> "YYYY-MM-DD"
isoformat(n) ==
    LET y == YearOf(n)
        m == MonthOf(n)
    IN  <<y, m, n - DaysBeforeYear(y) - DaysBeforeMonth(y, m) + 1>>

(***************************************************************************)
(* JSON values of state.json's last_checked_date.  kind "null" is JSON     *)
(* null, "str" a string (ymd is what the string spells: a triple when it   *)
(* has the shape YYYY-MM-DD, <<>> otherwise), "num" a non-zero number.     *)
(***************************************************************************)
JsonNull == [kind |-> "null", ymd |-> <<>>]
JsonDate(ymd) == [kind |-> "str", ymd |-> ymd]
JsonGarbage == [kind |-> "str", ymd |-> <<>>]
JsonNumber == [kind |-> "num", ymd |-> <<>>]

\* Python truthiness of the value
Truthy(v) == v.kind # "null"

\* datetime.strptime(v, "%Y-%m-%d").date(): "ok" with the ordinal, or the exception
strptime(v) ==
    IF v.kind # "str" THEN [exc |-> "TypeError", val |-> 0]
    ELSE IF ~IsCalendarDate(v.ymd) THEN [exc |-> "ValueError", val |-> 0]
    ELSE [exc |-> "ok", val |-> date(v.ymd[1], v.ymd[2], v.ymd[3])]

(***************************************************************************)
(* Characters and text.                                                    *)
(***************************************************************************)
UpperCase == <<"A", "C", "D", "I", "L", "M", "O", "P", "V">>
LowerCase == <<"a", "c", "d", "i", "l", "m", "o", "p", "v">>

\* str.lower() on one character
LowerChar(c) ==
    IF \E i \in 1..Len(UpperCase) : UpperCase[i] = c
    THEN LowerCase[CHOOSE i \in 1..Len(UpperCase) : UpperCase[i] = c]
    ELSE c

lower(s) == [i \in 1..Len(s) |-> LowerChar(s[i])]

IsSpace(c) == c \in {" ", "\n", "\t"}

\* the regex class \w on the characters used here: everything but blanks and punctuation
IsWordChar(c) == ~IsSpace(c) /\ c \notin {"-", ".", ",", "/", "*", ":"}

RECURSIVE lstrip(_)
lstrip(s) == IF s # <<>> /\ IsSpace(Head(s)) THEN lstrip(Tail(s)) ELSE s

RECURSIVE rstrip(_)
rstrip(s) == IF s # <<>> /\ IsSpace(s[Len(s)]) THEN rstrip(SubSeq(s, 1, Len(s) - 1)) ELSE s

strip(s) == rstrip(lstrip(s))

\* " ".join(parts)
RECURSIVE join(_)
join(parts) ==
    IF parts = <<>> THEN <<>>
    ELSE IF Len(parts) = 1 THEN parts[1]
    ELSE parts[1] \o <<" ">> \o join(Tail(parts))

\* dict.get(key, default)
Get(d, k, default) == IF k \in DOMAIN d THEN d[k] ELSE default

\* text[s+1 .. s+Len(w)] = w, for a 0-based offset s
OccursAt(text, w, s) ==
    /\ s >= 0
    /\ s + Len(w) <= Len(text)
    /\ \A i \in 1..Len(w) : text[s + i] = w[i]

\* the regex assertion \b at 0-based offset s (between text[s] and text[s+1])
WordBoundary(text, s) ==
    LET before == s >= 1 /\ s <= Len(text) /\ IsWordChar(text[s])
        after == s >= 0 /\ s < Len(text) /\ IsWordChar(text[s + 1])
    IN  before # after

\* the regex lookbehind (?<=\bw) at offset s
LookBehind(text, w, s) == OccursAt(text, w, s - Len(w)) /\ WordBoundary(text, s - Len(w))

(***************************************************************************)
(* EURLexTradeDocumentMatcher.  The three keyword groups hold the short    *)
(* entries of the sets in matcher.py (CVD; DAP, MAP; OCP, ICL, Morocco);   *)
(* the rule that combines the groups does not depend on how many keywords  *)
(* a group has.                                                            *)
(***************************************************************************)
measure_keywords == {<<"C", "V", "D">>}

product_keywords == {<<"D", "A", "P">>, <<"M", "A", "P">>}

place_company_keywords == {<<"O", "C", "P">>, <<"I", "C", "L">>, <<"M", "o", "r", "o", "c", "c", "o">>}

\* the entries extract_entities skips as country names
country_names == {<<"M", "o", "r", "o", "c", "c", "o">>, <<"M", "o", "r", "o", "c", "c", "a", "n">>}

\* the "total_groups" entry of match_details
total_groups == 3

\* _normalize_text
_normalize_text(text) == IF text = <<>> THEN <<>> ELSE strip(lower(text))

\* the prefixes the non-wildcard pattern accepts glued in front of a keyword
glued_prefixes == {<<"i", "n">>, <<"f", "r", "o", "m">>, <<"t", "o">>, <<"o", "f">>}

\* the search of a keyword with \b alone in front of it
SearchExactBoundaryOnly(kw, text) ==
    \E s \in 0..Len(text) :
        /\ WordBoundary(text, s)
        /\ OccursAt(text, kw, s)
        /\ WordBoundary(text, s + Len(kw))

\* re.search(r'(?:\b|(?<=\bin)|(?<=\bfrom)|(?<=\bto)|(?<=\bof))' + re.escape(kw) + r'\b', text)
SearchExact(kw, text) ==
    \E s \in 0..Len(text) :
        /\ WordBoundary(text, s) \/ \E w \in glued_prefixes : LookBehind(text, w, s)
        /\ OccursAt(text, kw, s)
        /\ WordBoundary(text, s + Len(kw))

HasStar(kw) == \E i \in 1..Len(kw) : kw[i] = "*"

StarAt(kw) == CHOOSE i \in 1..Len(kw) : kw[i] = "*" /\ \A j \in 1..(i - 1) : kw[j] # "*"

\* the wildcard search without the \b in front of the pattern
SearchWildcardAnywhere(kw, text) ==
    LET pre == SubSeq(kw, 1, StarAt(kw) - 1)
        post == SubSeq(kw, StarAt(kw) + 1, Len(kw))
    IN  \E s \in 0..Len(text) : \E k \in 0..Len(text) :
            /\ OccursAt(text, pre, s)
            /\ s + Len(pre) + k <= Len(text)
            /\ \A i \in 1..k : IsWordChar(text[s + Len(pre) + i])
            /\ OccursAt(text, post, s + Len(pre) + k)
            /\ WordBoundary(text, s + Len(pre) + k + Len(post))

\* re.search(r'\b' + kw.replace('*', r'\w*') + r'\b', text), for a keyword with one marker
SearchWildcard(kw, text) ==
    LET pre == SubSeq(kw, 1, StarAt(kw) - 1)
        post == SubSeq(kw, StarAt(kw) + 1, Len(kw))
    IN  \E s \in 0..Len(text) : \E k \in 0..Len(text) :
            /\ WordBoundary(text, s)
            /\ OccursAt(text, pre, s)
            /\ s + Len(pre) + k <= Len(text)
            /\ \A i \in 1..k : IsWordChar(text[s + Len(pre) + i])
            /\ OccursAt(text, post, s + Len(pre) + k)
            /\ WordBoundary(text, s + Len(pre) + k + Len(post))

\* one iteration of the loop of _find_keyword_matches: does `keyword` match?
KeywordMatches(keyword, normalized_text) ==
    LET normalized_keyword == _normalize_text(keyword)
    IN  IF HasStar(normalized_keyword)
        THEN SearchWildcard(normalized_keyword, normalized_text)
        ELSE SearchExact(normalized_keyword, normalized_text)

\* _find_keyword_matches: the matched keywords (a list in set-iteration order in the
\* code; its order is not fixed by the program, so it is a set here)
_find_keyword_matches(text, keywords) ==
    IF text = <<>> THEN {}
    ELSE {keyword \in keywords : KeywordMatches(keyword, _normalize_text(text))}

\* the blob of is_match: title, text, subject, author, excerpt joined by single blanks
searchable_text(document) ==
    join(<<Get(document, "TI", <<>>), Get(document, "TX", <<>>), Get(document, "SU", <<>>),
           Get(document, "AU", <<>>), Get(document, "TE", <<>>)>>)

BoolToInt(b) == IF b THEN 1 ELSE 0

\* the decision of is_match from the three match lists
GroupRuleAllThree(measure_matches, product_matches, place_company_matches) ==
    /\ place_company_matches # {}
    /\ measure_matches # {}
    /\ product_matches # {}

GroupRule(measure_matches, product_matches, place_company_matches) ==
    /\ place_company_matches # {}
    /\ (measure_matches # {} \/ product_matches # {})

\* is_match: <<is_match, match_details>> as one record
is_match(document) ==
    LET measure_matches == _find_keyword_matches(searchable_text(document), measure_keywords)
        product_matches == _find_keyword_matches(searchable_text(document), product_keywords)
        place_company_matches ==
            _find_keyword_matches(searchable_text(document), place_company_keywords)
    IN  [is_match |-> GroupRule(measure_matches, product_matches, place_company_matches),
         match_details |->
            [measure_keywords |-> measure_matches,
             product_keywords |-> product_matches,
             place_company_keywords |-> place_company_matches,
             groups_matched |-> BoolToInt(measure_matches # {}) + BoolToInt(product_matches # {})
                                + BoolToInt(place_company_matches # {}),
             total_groups |-> total_groups,
             match_score |-> Cardinality(measure_matches) + Cardinality(product_matches)
                             + Cardinality(place_company_matches)]]

\* match.start() of re.search(re.escape(w), text): the first offset w occurs at, -1 for
\* no match
FirstAt(text, w) ==
    IF \E s \in 0..Len(text) : OccursAt(text, w, s)
    THEN CHOOSE s \in 0..Len(text) :
            OccursAt(text, w, s) /\ \A r \in 0..(s - 1) : ~OccursAt(text, w, r)
    ELSE -1

\* the wildcard pattern matches text[s .. e) with k characters for \w*
WildcardSpanAt(kw, text, s, k) ==
    LET pre == SubSeq(kw, 1, StarAt(kw) - 1)
        post == SubSeq(kw, StarAt(kw) + 1, Len(kw))
    IN  /\ WordBoundary(text, s)
        /\ OccursAt(text, pre, s)
        /\ s + Len(pre) + k <= Len(text)
        /\ \A i \in 1..k : IsWordChar(text[s + Len(pre) + i])
        /\ OccursAt(text, post, s + Len(pre) + k)
        /\ WordBoundary(text, s + Len(pre) + k + Len(post))

\* <<match.start(), match.end()>> of the search _extract_matching_snippets does for a
\* keyword: leftmost, \w* as long as it can be; <<-1, -1>> for no match
SnippetSpan(normalized_keyword, normalized_text) ==
    IF HasStar(normalized_keyword)
    THEN IF SearchWildcard(normalized_keyword, normalized_text)
         THEN LET s == CHOOSE s \in 0..Len(normalized_text) :
                          /\ \E k \in 0..Len(normalized_text) :
                                WildcardSpanAt(normalized_keyword, normalized_text, s, k)
                          /\ \A r \in 0..(s - 1) : \A k \in 0..Len(normalized_text) :
                                ~WildcardSpanAt(normalized_keyword, normalized_text, r, k)
                  k == CHOOSE k \in 0..Len(normalized_text) :
                          /\ WildcardSpanAt(normalized_keyword, normalized_text, s, k)
                          /\ \A j \in (k + 1)..Len(normalized_text) :
                                ~WildcardSpanAt(normalized_keyword, normalized_text, s, j)
              IN  <<s, s + Len(normalized_keyword) - 1 + k>>
         ELSE <<-1, -1>>
    ELSE IF FirstAt(normalized_text, normalized_keyword) >= 0
         THEN <<FirstAt(normalized_text, normalized_keyword),
                FirstAt(normalized_text, normalized_keyword) + Len(normalized_keyword)>>
         ELSE <<-1, -1>>

\* the characters taken on each side of a match
snippet_radius == 50

\* the snippets is_match keeps
max_snippets == 3

Max(a, b) == IF a >= b THEN a ELSE b
Min(a, b) == IF a <= b THEN a ELSE b

Ellipsis == <<".", ".", ".">>

\* the loop of _extract_matching_snippets over matched_keywords[i..]: the offsets are
\* found in the normalized text and the slice is taken from text
RECURSIVE SnippetLoop(_, _, _)
SnippetLoop(text, matched_keywords, i) ==
    IF i > Len(matched_keywords) THEN <<>>
    ELSE LET match == SnippetSpan(_normalize_text(matched_keywords[i]), _normalize_text(text))
             start == Max(0, match[1] - snippet_radius)
             end == Min(Len(text), match[2] + snippet_radius)
             snippet == strip(SubSeq(text, start + 1, end))
         IN  (IF match[1] >= 0 /\ snippet # <<>> THEN <<Ellipsis \o snippet \o Ellipsis>>
              ELSE <<>>)
             \o SnippetLoop(text, matched_keywords, i + 1)

\* _extract_matching_snippets
_extract_matching_snippets(text, matched_keywords) ==
    IF text = <<>> \/ matched_keywords = <<>> THEN <<>>
    ELSE SnippetLoop(text, matched_keywords, 1)

\* the lists a set can be iterated as
RECURSIVE Perms(_)
Perms(S) ==
    IF S = {} THEN {<<>>}
    ELSE UNION {{<<x>> \o rest : rest \in Perms(S \ {x})} : x \in S}

\* all_matched_keywords of is_match: the three match lists one after the other, each in
\* the order its keyword set happens to be iterated in
all_matched_keywords(document) ==
    {a \o b \o c :
        a \in Perms(is_match(document).match_details.measure_keywords),
        b \in Perms(is_match(document).match_details.product_keywords),
        c \in Perms(is_match(document).match_details.place_company_keywords)}

\* match_details["matched_text_snippets"] of is_match, for one order of the keywords
matched_text_snippets(document, keywords) ==
    LET snippets == _extract_matching_snippets(searchable_text(document), keywords)
    IN  SubSeq(snippets, 1, Min(Len(snippets), max_snippets))

\* field values that are no str: None, and a number
PyNone == <<"None">>
PyInt == <<"int">>
IsStr(v) == v # PyNone /\ v # PyInt

\* " ".join(parts) raises TypeError: an item is no str
join_raises(parts) == \E i \in 1..Len(parts) : ~IsStr(parts[i])

\* is_match raises: document.get(field, '') gives the stored value when the field is
\* present, and the join of the five values is not guarded
is_match_raises(document) ==
    join_raises(<<Get(document, "TI", <<>>), Get(document, "TX", <<>>), Get(document, "SU", <<>>),
                  Get(document, "AU", <<>>), Get(document, "TE", <<>>)>>)

\* extract_entities raises: the join of title, text and subject
extract_entities_raises(document) ==
    join_raises(<<Get(document, "TI", <<>>), Get(document, "TX", <<>>), Get(document, "SU", <<>>)>>)

\* str.__contains__: w in text
Contains(text, w) == \E s \in 0..Len(text) : OccursAt(text, w, s)

\* extract_entities: companies and products named in title, text and subject
extract_entities(document) ==
    LET text == join(<<Get(document, "TI", <<>>), Get(document, "TX", <<>>),
                       Get(document, "SU", <<>>)>>)
    IN  [companies |-> {keyword \in place_company_keywords \ country_names :
                            Contains(_normalize_text(text), _normalize_text(keyword))},
         products |-> {keyword \in product_keywords :
                            Contains(_normalize_text(text), _normalize_text(keyword))}]

(***************************************************************************)
(* Records the search site can serve, as _parse_search_results builds      *)
(* them: a title of more than 10 characters, the fixed author, and a       *)
(* document number or a url.  DD is "YYYY-MM-DD" as a triple.              *)
(***************************************************************************)
AU_default == <<"E", "u", "r", "o", "p", "e", "a", "n", " ", "U", "n", "i", "o", "n">>

TitleCvd == <<"O", "C", "P", " ", "C", "V", "D", " ", "r", "u", "l", "i", "n", "g">>
TitleDap == <<"D", "A", "P", " ", "f", "r", "o", "m", "M", "o", "r", "o", "c", "c", "o">>
TitleMap == <<"I", "C", "L", " ", "m", "a", "p", " ", "n", "o", "t", "i", "c", "e">>
TitlePlain == <<"O", "C", "P", " ", "a", "n", "n", "u", "a", "l", " ", "r", "e", "p", "o", "r", "t">>

\* 32024R0001 twice (two titles, two dates), two records without a number sharing a
\* title, one record that names a company but no measure and no product, one more, and
\* one with a number of its own and the title of a record without a number
RawA1 == [TI |-> TitleCvd, DN |-> "32024R0001", DD |-> <<2024, 1, 15>>, AU |-> AU_default]
RawA2 == [TI |-> TitleDap, DN |-> "32024R0001", DD |-> <<2024, 6, 2>>, AU |-> AU_default]
RawB1 == [TI |-> TitleMap, url |-> "u1", DD |-> <<2024, 3, 1>>, AU |-> AU_default]
RawB2 == [TI |-> TitleMap, url |-> "u2", AU |-> AU_default]
RawC == [TI |-> TitlePlain, DN |-> "32024D0002", DD |-> <<2024, 6, 1>>, AU |-> AU_default]
RawD == [TI |-> TitleDap, DN |-> "32024R0003", DD |-> <<2024, 6, 1>>, AU |-> AU_default]
RawE == [TI |-> TitleMap, DN |-> "32024R0004", DD |-> <<2024, 2, 1>>, AU |-> AU_default]

\* the result list of the site, page by page; a request is answered with the page of
\* that number while the site has one
SitePage(n) ==
    CASE n = 1 -> <<RawA1, RawC>>
      [] n = 2 -> <<RawB1, RawA2, RawB2, RawE>>
      [] OTHER -> <<RawD>>

\* every record the site serves
SiteRecords == UNION {{SitePage(n)[i] : i \in 1..Len(SitePage(n))} : n \in 1..(MaxFeedPages + 1)}

\* the fields of a record that is_match and extract_entities read
TextOf(doc) == [k \in DOMAIN doc \cap {"TI", "TX", "SU", "AU", "TE"} |-> doc[k]]

\* is_match and extract_entities on the site's records, computed once
SiteMatches == [d \in {TextOf(r) : r \in SiteRecords} |-> is_match(d)]
SiteEntities == [d \in {TextOf(r) : r \in SiteRecords} |-> extract_entities(d)]

\* self.matcher.is_match(doc), self.matcher.extract_entities(doc)
matcher_is_match(doc) ==
    IF TextOf(doc) \in DOMAIN SiteMatches THEN SiteMatches[TextOf(doc)] ELSE is_match(doc)
matcher_extract_entities(doc) ==
    IF TextOf(doc) \in DOMAIN SiteEntities THEN SiteEntities[TextOf(doc)] ELSE extract_entities(doc)

\* datetime.now().isoformat() read at time t by the gateway or by the enrichment
Stamp(t, who) == [t |-> t, by |-> who]

\* the records of one parsed page, each with the gateway's scraped_at
ParsedPage(page, t) == [i \in 1..Len(page) |-> ("scraped_at" :> Stamp(t, "gateway")) @@ page[i]]

(***************************************************************************)
(* The two stores.  A file is absent, readable JSON, or present but not    *)
(* loadable (json.load raises).                                            *)
(***************************************************************************)
NoFile == [exists |-> FALSE, readable |-> FALSE, data |-> <<>>]
JsonFile(data) == [exists |-> TRUE, readable |-> TRUE, data |-> data]

\* the documents a results file holds
DocsOf(file) == file.data

DocSet(docs) == {docs[i] : i \in 1..Len(docs)}

\* how a write ends: done, or open() raises and the file is as it was
WriteOutcomes == {"ok", "raises"}

\* the file after the with-block of _save_results / _save_state
Written(file, data, outcome) == IF outcome = "ok" THEN JsonFile(data) ELSE file

\* _save_results: the exception is logged and swallowed
_save_results(file, results, outcome) == Written(file, results, outcome)

\* _save_state: the exception is logged and swallowed
_save_state(file, state, outcome) == Written(file, state, outcome)

\* json.load of the file raises
LoadRaises(file) == file.exists /\ ~file.readable

\* _load_results: [] when the file is absent and when loading raises
_load_results(file) == IF file.exists /\ ~LoadRaises(file) THEN file.data ELSE <<>>

\* _load_state: {} when the file is absent and when loading raises
_load_state(file) == IF file.exists /\ ~LoadRaises(file) THEN file.data ELSE <<>>

\* the state record written by __init__ and by scrape
StateRecord(lcd, last_run, total) ==
    [last_checked_date |-> lcd, last_run |-> last_run, total_documents |-> total]

\* last_run: null
NullTime == 0

epoch_start_date == date(FirstYear, 1, 1)

\* _get_date_range without the "+ 1 day"
_get_date_range_same_day(state, today_) ==
    LET lcd == Get(state, "last_checked_date", JsonNull)
    IN  IF Truthy(lcd)
        THEN CASE strptime(lcd).exc = "ok" ->
                    [exc |-> "ok", from_date |-> strptime(lcd).val, to_date |-> today_]
               [] strptime(lcd).exc = "ValueError" ->
                    [exc |-> "ok", from_date |-> epoch_start_date, to_date |-> today_]
               [] OTHER -> [exc |-> strptime(lcd).exc, from_date |-> 0, to_date |-> 0]
        ELSE [exc |-> "ok", from_date |-> epoch_start_date, to_date |-> today_]

\* _get_date_range, given the loaded state: only ValueError is caught
_get_date_range(state, today_) ==
    LET lcd == Get(state, "last_checked_date", JsonNull)
    IN  IF Truthy(lcd)
        THEN CASE strptime(lcd).exc = "ok" ->
                    [exc |-> "ok", from_date |-> strptime(lcd).val + 1, to_date |-> today_]
               [] strptime(lcd).exc = "ValueError" ->
                    [exc |-> "ok", from_date |-> epoch_start_date, to_date |-> today_]
               [] OTHER -> [exc |-> strptime(lcd).exc, from_date |-> 0, to_date |-> 0]
        ELSE [exc |-> "ok", from_date |-> epoch_start_date, to_date |-> today_]

(***************************************************************************)
(* Deduplication, enrichment, ordering.                                    *)
(***************************************************************************)
\* a value a Python `if` takes as true: a document number, a title
NonEmptyStr(v) == v # ""
NonEmpty(v) == v # <<>>

DnOf(doc) == Get(doc, "DN", "")
TiOf(doc) == Get(doc, "TI", <<>>)

\* the loop of _deduplicate_documents over new[i..], with the running sets
RECURSIVE DedupLoop(_, _, _, _)
DedupLoop(new, i, dns, titles) ==
    IF i > Len(new) THEN <<>>
    ELSE LET doc == new[i]
             doc_number == DnOf(doc)
             title == TiOf(doc)
         IN  IF NonEmptyStr(doc_number) /\ doc_number \in dns
             THEN DedupLoop(new, i + 1, dns, titles)
             ELSE IF ~NonEmptyStr(doc_number) /\ NonEmpty(title) /\ title \in titles
             THEN DedupLoop(new, i + 1, dns, titles)
             ELSE <<doc>> \o DedupLoop(new, i + 1,
                                       IF NonEmptyStr(doc_number) THEN dns \cup {doc_number} ELSE dns,
                                       IF NonEmpty(title) THEN titles \cup {title} ELSE titles)

\* the same loop with the sets left as they were built from the existing corpus
RECURSIVE DedupLoopNoGrow(_, _, _, _)
DedupLoopNoGrow(new, i, dns, titles) ==
    IF i > Len(new) THEN <<>>
    ELSE LET doc == new[i]
             doc_number == DnOf(doc)
             title == TiOf(doc)
         IN  IF NonEmptyStr(doc_number) /\ doc_number \in dns
             THEN DedupLoopNoGrow(new, i + 1, dns, titles)
             ELSE IF ~NonEmptyStr(doc_number) /\ NonEmpty(title) /\ title \in titles
             THEN DedupLoopNoGrow(new, i + 1, dns, titles)
             ELSE <<doc>> \o DedupLoopNoGrow(new, i + 1, dns, titles)

_deduplicate_documents_no_grow(existing, new) ==
    DedupLoopNoGrow(new, 1,
                    {DnOf(existing[j]) : j \in {k \in 1..Len(existing) : NonEmptyStr(DnOf(existing[k]))}},
                    {TiOf(existing[j]) : j \in {k \in 1..Len(existing) : NonEmpty(TiOf(existing[k]))}})

\* the loop with the title test applied to every candidate, numbered or not
RECURSIVE DedupLoopAnyTitle(_, _, _, _)
DedupLoopAnyTitle(new, i, dns, titles) ==
    IF i > Len(new) THEN <<>>
    ELSE LET doc == new[i]
             doc_number == DnOf(doc)
             title == TiOf(doc)
         IN  IF NonEmptyStr(doc_number) /\ doc_number \in dns
             THEN DedupLoopAnyTitle(new, i + 1, dns, titles)
             ELSE IF NonEmpty(title) /\ title \in titles
             THEN DedupLoopAnyTitle(new, i + 1, dns, titles)
             ELSE <<doc>> \o DedupLoopAnyTitle(new, i + 1,
                                       IF NonEmptyStr(doc_number) THEN dns \cup {doc_number} ELSE dns,
                                       IF NonEmpty(title) THEN titles \cup {title} ELSE titles)

_deduplicate_documents_any_title(existing, new) ==
    DedupLoopAnyTitle(new, 1,
              {DnOf(existing[j]) : j \in {k \in 1..Len(existing) : NonEmptyStr(DnOf(existing[k]))}},
              {TiOf(existing[j]) : j \in {k \in 1..Len(existing) : NonEmpty(TiOf(existing[k]))}})

\* _deduplicate_documents: unique_new
_deduplicate_documents(existing, new) ==
    DedupLoop(new, 1,
              {DnOf(existing[j]) : j \in {k \in 1..Len(existing) : NonEmptyStr(DnOf(existing[k]))}},
              {TiOf(existing[j]) : j \in {k \in 1..Len(existing) : NonEmpty(TiOf(existing[k]))}})

\* the loop of _clean_existing_duplicates over documents[i..]
RECURSIVE CleanLoop(_, _, _, _)
CleanLoop(documents, i, seen_dns, seen_titles) ==
    IF i > Len(documents) THEN <<>>
    ELSE LET doc == documents[i]
             doc_number == DnOf(doc)
             title == TiOf(doc)
         IN  IF NonEmptyStr(doc_number)
             THEN IF doc_number \in seen_dns
                  THEN CleanLoop(documents, i + 1, seen_dns, seen_titles)
                  ELSE <<doc>> \o CleanLoop(documents, i + 1, seen_dns \cup {doc_number}, seen_titles)
             ELSE IF NonEmpty(title)
             THEN IF title \in seen_titles
                  THEN CleanLoop(documents, i + 1, seen_dns, seen_titles)
                  ELSE <<doc>> \o CleanLoop(documents, i + 1, seen_dns, seen_titles \cup {title})
             ELSE <<doc>> \o CleanLoop(documents, i + 1, seen_dns, seen_titles)

\* _clean_existing_duplicates
_clean_existing_duplicates(documents) ==
    IF documents = <<>> THEN documents ELSE CleanLoop(documents, 1, {}, {})

\* filter_documents: the matching records in input order, each with its match_details
\* and its scraped_at kept (None when it had none)
RECURSIVE filter_documents(_)
filter_documents(documents) ==
    IF documents = <<>> THEN <<>>
    ELSE LET doc == Head(documents)
         IN  IF matcher_is_match(doc).is_match
             THEN <<("match_details" :> matcher_is_match(doc).match_details)
                    @@ ("scraped_at" :> Get(doc, "scraped_at", Stamp(NullTime, "none")))
                    @@ doc>> \o filter_documents(Tail(documents))
             ELSE filter_documents(Tail(documents))

\* one iteration of _enrich_documents at time t
EnrichOne(doc, t) ==
    (IF NonEmptyStr(DnOf(doc)) THEN ("eurlex_url" :> <<"CELEX:", doc.DN>>) ELSE <<>>)
    @@ [scraped_at |-> Stamp(t, "enrich"),
        companies |-> matcher_extract_entities(doc).companies,
        products |-> matcher_extract_entities(doc).products,
        document_number |-> Get(doc, "DN", ""),
        title |-> Get(doc, "TI", <<>>),
        publication_date |-> Get(doc, "DD", <<>>),
        author |-> Get(doc, "AU", <<>>),
        form |-> Get(doc, "FM", <<>>),
        subject |-> Get(doc, "SU", <<>>),
        text |-> Get(doc, "TX", <<>>),
        text_excerpt |-> Get(doc, "TE", <<>>),
        official_journal |-> Get(doc, "OJ", <<>>)]
    @@ doc

\* _enrich_documents
_enrich_documents(documents, t) == [i \in 1..Len(documents) |-> EnrichOne(documents[i], t)]

\* a < b for two strings of digits given as number sequences ("" is <<>>)
RECURSIVE StrLess(_, _)
StrLess(a, b) ==
    IF b = <<>> THEN FALSE
    ELSE IF a = <<>> THEN TRUE
    ELSE IF Head(a) # Head(b) THEN Head(a) < Head(b)
    ELSE StrLess(Tail(a), Tail(b))

SortKey(doc) == Get(doc, "publication_date", <<>>)

\* x put into a list that is in descending key order, behind the entries that do not
\* sort after it (list.sort is stable, also with reverse=True)
RECURSIVE InsertDesc(_, _)
InsertDesc(sorted, x) ==
    IF sorted = <<>> THEN <<x>>
    ELSE IF StrLess(SortKey(Head(sorted)), SortKey(x)) THEN <<x>> \o sorted
    ELSE <<Head(sorted)>> \o InsertDesc(Tail(sorted), x)

RECURSIVE SortDescFrom(_, _, _)
SortDescFrom(docs, i, acc) ==
    IF i > Len(docs) THEN acc ELSE SortDescFrom(docs, i + 1, InsertDesc(acc, docs[i]))

\* the merge step without the sort
merge_unsorted(existing_results, unique_new) == existing_results \o unique_new

\* all_results = existing_results + unique_new; all_results.sort(key=publication_date, reverse=True)
merge_sorted(existing_results, unique_new) == SortDescFrom(existing_results \o unique_new, 1, <<>>)

\* the page ceiling scrape passes to search_trade_regulations
max_pages == 10

(***************************************************************************)
(* State.                                                                  *)
(***************************************************************************)
\* the processes that own a scraper object.  One is enough while runs do not overlap:
\* it lives on after a run like the API process, or exits like the command line
Procs == {"p1"}

\* the days the clock is read on: 2024-06-01, 2024-06-02, 2025-01-01
ClockDays == {date(2024, 6, 1), date(2024, 6, 2), date(2025, 1, 1)}

\* what an edit of state.json from outside can leave in last_checked_date
EditedWatermarks == {JsonGarbage, JsonNumber, JsonDate(<<2024, 2, 30>>)}

VARIABLES
    today,          \* date.today()
    now,            \* logical time: the number of scrape() calls started
    results_files,  \* year -> data/results-<year>.json
    state_file,     \* data/state.json
    pc,             \* per process: where its scraper is
    current_year,   \* per process: self.current_year, which names self.results_file
    run,            \* per process: the locals of scrape()
    hist,           \* per process: what the current run has seen and done (history)
    last,           \* the run that returned last, where runs are observed: its status,
                    \* its window and the records it was served (history)
    m_doc,          \* matcher check: the candidate record
    m_out,          \* matcher check: what is_match returned
    arg,            \* a function applied on its own: its arguments
    ret             \* a function applied on its own: how far it got, and its results

vars == <<today, now, results_files, state_file, pc, current_year, run, hist, last, m_doc, m_out, arg, ret>>

NoRun == [from_date |-> 0, to_date |-> 0, page_num |-> 0,
          raw_documents |-> <<>>, matched_documents |-> <<>>,
          existing_results |-> <<>>, unique_new |-> <<>>, all_results |-> <<>>,
          result |-> [status |-> "none", new_documents |-> 0, total_documents |-> 0]]

\* mode: which branch of the planning ran; path: where the planning led;
\* state_reads, state_writes: the calls of _load_state and of _save_state so far
NoHist == [pre_state |-> NoFile, pre_results |-> [y \in Years |-> NoFile],
           mode |-> "none", path |-> "none", pages |-> 0, fetch_error |-> FALSE,
           load_raised |-> FALSE, results_write |-> "none", state_write |-> "none",
           state_reads |-> 0, state_writes |-> 0]

\* no function is applied on its own
NoCall == [step |-> 0]

\* no run has returned yet
NoLast == [status |-> "none", from_date |-> 0, to_date |-> 0, records |-> <<>>]

NoMatch == [called |-> FALSE, raised |-> FALSE, is_match |-> FALSE, groups_matched |-> 0]

\* the state after nothing has run: an empty data directory on 2024-06-01
Init ==
    /\ today = date(2024, 6, 1)
    /\ now = 0
    /\ results_files = [y \in Years |-> NoFile]
    /\ state_file = NoFile
    /\ pc = [p \in Procs |-> "none"]
    /\ current_year = [p \in Procs |-> FirstYear]
    /\ run = [p \in Procs |-> NoRun]
    /\ hist = [p \in Procs |-> NoHist]
    /\ last = NoLast
    /\ m_doc = <<>>
    /\ m_out = NoMatch
    /\ arg = NoCall
    /\ ret = NoCall

\* no process is inside an operation (runs are single-flight, spec section 5)
Quiet == \A q \in Procs : pc[q] \in {"none", "idle"}

(***************************************************************************)
(* EURLexTradeScraper: construction and the steps of scrape().             *)
(***************************************************************************)
\* __init__ and _initialize_data_files: the object is bound to the results file of the
\* year it is built in; a missing file is written, and a failed write is swallowed
__init__(p) ==
    /\ pc[p] = "none"
    /\ \E o1, o2 \in WriteOutcomes :
        /\ results_files' =
              IF results_files[YearOf(today)].exists THEN results_files
              ELSE [results_files EXCEPT ![YearOf(today)] = _save_results(@, <<>>, o1)]
        /\ state_file' =
              IF state_file.exists THEN state_file
              ELSE _save_state(state_file, StateRecord(JsonNull, NullTime, 0), o2)
    /\ current_year' = [current_year EXCEPT ![p] = YearOf(today)]
    /\ pc' = [pc EXCEPT ![p] = "idle"]
    /\ UNCHANGED <<today, now, run, hist, last, m_doc, m_out, arg, ret>>

\* a scraper is built while no process is inside an operation
Construct(p) == Quiet /\ __init__(p)

\* the process ends and its scraper object with it
Exit(p) ==
    /\ pc[p] = "idle"
    /\ pc' = [pc EXCEPT ![p] = "none"]
    /\ UNCHANGED <<today, now, results_files, state_file, current_year, run, hist, last, m_doc, m_out, arg, ret>>

\* the planning with the test of force_full_2024 put first
plan_window_full_first(file, today_, force_full_2024, force_current_year) ==
    IF force_full_2024
    THEN [exc |-> "ok", from_date |-> date(FirstYear, 1, 1), to_date |-> today_]
    ELSE IF force_current_year
    THEN [exc |-> "ok", from_date |-> date(YearOf(today_), 1, 1), to_date |-> today_]
    ELSE _get_date_range(_load_state(file), today_)

\* scrape, "Determine date range": the two override branches, else _get_date_range
plan_window(file, today_, force_full_2024, force_current_year) ==
    IF force_current_year
    THEN [exc |-> "ok", from_date |-> date(YearOf(today_), 1, 1), to_date |-> today_]
    ELSE IF force_full_2024
    THEN [exc |-> "ok", from_date |-> date(FirstYear, 1, 1), to_date |-> today_]
    ELSE _get_date_range(_load_state(file), today_)

\* state.json after the except clause of scrape at time t, with a write of last_run
except_clause_stamps_last_run(file, t) ==
    IF file.exists /\ file.readable THEN JsonFile([file.data EXCEPT !.last_run = t]) ELSE file

\* state.json after the except clause of scrape at time t: it logs and returns the
\* error result, and writes nothing
except_clause(file, t) == file

\* scrape() up to the up-to-date test; an exception of the planning ends the run in the
\* except clause with status error
scrape_plan(p, force_full_2024, force_current_year) ==
    /\ pc[p] = "idle"
    /\ now < MaxRuns
    /\ now' = now + 1
    /\ LET plan == plan_window(state_file, today, force_full_2024, force_current_year)
           path == IF plan.exc # "ok" THEN "raised"
                   ELSE IF plan.from_date > plan.to_date THEN "up_to_date"
                   ELSE "fetching"
       IN  /\ run' = [run EXCEPT ![p] =
                        [NoRun EXCEPT !.from_date = plan.from_date,
                                      !.to_date = plan.to_date,
                                      !.page_num = 1,
                                      !.result.status = IF plan.exc = "ok" THEN "none" ELSE "error"]]
           /\ pc' = [pc EXCEPT ![p] = IF path = "raised" THEN "done" ELSE path]
           /\ hist' = [hist EXCEPT ![p] =
                        [NoHist EXCEPT !.pre_state = state_file,
                                       !.pre_results = results_files,
                                       !.mode = IF force_current_year THEN "current_year"
                                                ELSE IF force_full_2024 THEN "full_2024"
                                                ELSE "incremental",
                                       !.path = path,
                                       !.state_reads =
                                           IF force_current_year \/ force_full_2024
                                           THEN 0 ELSE 1]]
           /\ state_file' = IF path = "raised" THEN except_clause(state_file, now + 1)
                             ELSE state_file
    /\ UNCHANGED <<today, results_files, current_year, last, m_doc, m_out, arg, ret>>

\* scrape() is called while no process is inside an operation
Scrape(p, force_full_2024, force_current_year) ==
    Quiet /\ scrape_plan(p, force_full_2024, force_current_year)

\* scrape, "already up to date": load the corpus, write the state, return
UpToDate(p) ==
    /\ pc[p] = "up_to_date"
    /\ LET existing_results == _load_results(results_files[current_year[p]])
       IN  /\ \E o \in WriteOutcomes :
                /\ state_file' = _save_state(state_file,
                                     StateRecord(JsonDate(isoformat(run[p].to_date)), now,
                                                 Len(existing_results)), o)
                /\ hist' = [hist EXCEPT ![p].state_write = o,
                                        ![p].state_writes = @ + 1,
                                        ![p].load_raised = LoadRaises(results_files[current_year[p]])]
           /\ run' = [run EXCEPT ![p].existing_results = existing_results,
                                 ![p].result = [status |-> "up_to_date", new_documents |-> 0,
                                                total_documents |-> Len(existing_results)]]
    /\ pc' = [pc EXCEPT ![p] = "done"]
    /\ UNCHANGED <<today, now, results_files, current_year, last, m_doc, m_out, arg, ret>>

\* search_documents: one turn of `for page_num in range(1, max_pages + 1)`.  The request
\* raises, or the page parses to no record (both leave the loop), or it parses to records
FetchPage(p) ==
    /\ pc[p] = "fetching"
    /\ run[p].page_num <= max_pages
    /\ \/ /\ hist' = [hist EXCEPT ![p].pages = @ + 1, ![p].fetch_error = TRUE]
          /\ pc' = [pc EXCEPT ![p] = "matching"]
          /\ run' = run
       \/ /\ hist' = [hist EXCEPT ![p].pages = @ + 1]
          /\ pc' = [pc EXCEPT ![p] = "matching"]
          /\ run' = run
       \/ /\ run[p].page_num <= MaxFeedPages
          /\ run' = [run EXCEPT ![p].raw_documents = @ \o ParsedPage(SitePage(run[p].page_num), now),
                                ![p].page_num = @ + 1]
          /\ hist' = [hist EXCEPT ![p].pages = @ + 1]
          /\ pc' = [pc EXCEPT ![p] = IF run[p].page_num + 1 > max_pages THEN "matching"
                                     ELSE "fetching"]
    /\ UNCHANGED <<today, now, results_files, state_file, current_year, last, m_doc, m_out, arg, ret>>

\* scrape from filter_documents to _deduplicate_documents: match, enrich, load the
\* corpus, clean it, drop the duplicates
Process(p) ==
    /\ pc[p] = "matching"
    /\ LET matched_documents == _enrich_documents(filter_documents(run[p].raw_documents), now)
           existing_results ==
               _clean_existing_duplicates(_load_results(results_files[current_year[p]]))
       IN  run' = [run EXCEPT ![p].matched_documents = matched_documents,
                              ![p].existing_results = existing_results,
                              ![p].unique_new =
                                  _deduplicate_documents(existing_results, matched_documents)]
    /\ hist' = [hist EXCEPT ![p].load_raised = LoadRaises(results_files[current_year[p]])]
    /\ pc' = [pc EXCEPT ![p] = "persist"]
    /\ UNCHANGED <<today, now, results_files, state_file, current_year, last, m_doc, m_out, arg, ret>>

\* scrape, "Combine and save results"
Persist(p) ==
    /\ pc[p] = "persist"
    /\ \/ /\ run[p].unique_new # <<>>
          /\ LET all_results == merge_sorted(run[p].existing_results, run[p].unique_new)
             IN  /\ run' = [run EXCEPT ![p].all_results = all_results]
                 /\ \E o \in WriteOutcomes :
                      /\ results_files' = [results_files EXCEPT ![current_year[p]] =
                                              _save_results(@, all_results, o)]
                      /\ hist' = [hist EXCEPT ![p].results_write = o]
       \/ /\ run[p].unique_new = <<>>
          /\ run' = [run EXCEPT ![p].all_results = run[p].existing_results]
          /\ UNCHANGED <<results_files, hist>>
    /\ pc' = [pc EXCEPT ![p] = "save_state"]
    /\ UNCHANGED <<today, now, state_file, current_year, last, m_doc, m_out, arg, ret>>

\* scrape, "Always update state with latest run info", and the success result
SaveState(p) ==
    /\ pc[p] = "save_state"
    /\ \E o \in WriteOutcomes :
        /\ state_file' = _save_state(state_file,
                             StateRecord(JsonDate(isoformat(run[p].to_date)), now,
                                         Len(run[p].all_results)), o)
        /\ hist' = [hist EXCEPT ![p].state_write = o, ![p].state_writes = @ + 1]
    /\ run' = [run EXCEPT ![p].result = [status |-> "success",
                                         new_documents |-> Len(run[p].unique_new),
                                         total_documents |-> Len(run[p].all_results)]]
    /\ pc' = [pc EXCEPT ![p] = "done"]
    /\ UNCHANGED <<today, now, results_files, current_year, last, m_doc, m_out, arg, ret>>

\* the records of raw_documents as the site served them (without the scraped_at stamp)
Served(raw_documents) ==
    [i \in 1..Len(raw_documents) |->
        [k \in DOMAIN raw_documents[i] \ {"scraped_at"} |-> raw_documents[i][k]]]

\* scrape has returned its result to the caller
Return(p) ==
    /\ pc[p] = "done"
    /\ pc' = [pc EXCEPT ![p] = "idle"]
    /\ run' = [run EXCEPT ![p] = NoRun]
    /\ hist' = [hist EXCEPT ![p] = NoHist]
    /\ UNCHANGED <<today, now, results_files, state_file, current_year, last, m_doc, m_out, arg, ret>>

(***************************************************************************)
(* The environment: the calendar, and edits of the data files from outside *)
(* the program.                                                            *)
(***************************************************************************)
Tick ==
    /\ Quiet
    /\ \E d \in ClockDays : d > today /\ today' = d
    /\ UNCHANGED <<now, results_files, state_file, pc, current_year, run, hist, last, m_doc, m_out, arg, ret>>

\* state.json is edited: last_checked_date gets a value the program did not write
EditStateFile ==
    /\ Quiet
    /\ state_file.exists /\ state_file.readable
    /\ \E w \in EditedWatermarks :
          state_file' = JsonFile([state_file.data EXCEPT !.last_checked_date = w])
    /\ UNCHANGED <<today, now, results_files, pc, current_year, run, hist, last, m_doc, m_out, arg, ret>>

\* a results file is damaged so that json.load raises; its documents are still in it
DamageResultsFile ==
    /\ Quiet
    /\ \E y \in Years :
          /\ results_files[y].exists /\ results_files[y].readable
          /\ results_files[y].data # <<>>
          /\ results_files' = [results_files EXCEPT ![y].readable = FALSE]
    /\ UNCHANGED <<today, now, state_file, pc, current_year, run, hist, last, m_doc, m_out, arg, ret>>

Next ==
    \/ \E p \in Procs : Construct(p)
    \/ \E p \in Procs : Exit(p)
    \/ \E p \in Procs : \E f24, fcy \in BOOLEAN : Scrape(p, f24, fcy)
    \/ \E p \in Procs : UpToDate(p)
    \/ \E p \in Procs : FetchPage(p)
    \/ \E p \in Procs : Process(p)
    \/ \E p \in Procs : Persist(p)
    \/ \E p \in Procs : SaveState(p)
    \/ \E p \in Procs : Return(p)
    \/ Tick
    \/ EditStateFile
    \/ DamageResultsFile

Spec == Init /\ [][Next]_vars

(***************************************************************************)
(* Crawl runs and the duplicate cleanup of the command line               *)
(* (run_scraper.py --clean-duplicates) on one data directory.              *)
(***************************************************************************)
\* len(xs) - len(set(xs)) for the values xs of one field of the documents that are
\* not the empty value none
Repeated(values, none) ==
    LET present == {i \in 1..Len(values) : values[i] # none}
    IN  Cardinality(present) - Cardinality({values[i] : i \in present})

\* main() with --clean-duplicates, on the scraper it has built: nothing is written
\* when the file holds no document or no number or title twice; else the cleaned list
\* is saved.  The caller sees that the cleanup has returned and what it had loaded
CleanDuplicates(p) ==
    /\ Quiet
    /\ pc[p] = "idle"
    /\ LET existing_results == _load_results(results_files[current_year[p]])
           dn_duplicates == Repeated([i \in 1..Len(existing_results) |-> DnOf(existing_results[i])], "")
           title_duplicates == Repeated([i \in 1..Len(existing_results) |-> TiOf(existing_results[i])], <<>>)
           total_duplicates == dn_duplicates + title_duplicates
       IN  IF existing_results = <<>> \/ total_duplicates = 0
           THEN results_files' = results_files
           ELSE \E o \in WriteOutcomes :
                   results_files' = [results_files EXCEPT ![current_year[p]] =
                       _save_results(@, _clean_existing_duplicates(existing_results), o)]
    /\ last' = [NoLast EXCEPT !.status = "cleaned",
                              !.records = _load_results(results_files[current_year[p]])]
    /\ UNCHANGED <<today, now, state_file, pc, current_year, run, hist, m_doc, m_out, arg, ret>>

NextCleanup ==
    \/ \E p \in Procs : Construct(p)
    \/ \E p \in Procs : Exit(p)
    \/ \E p \in Procs : \E f24, fcy \in BOOLEAN : Scrape(p, f24, fcy)
    \/ \E p \in Procs : UpToDate(p)
    \/ \E p \in Procs : FetchPage(p)
    \/ \E p \in Procs : Process(p)
    \/ \E p \in Procs : Persist(p)
    \/ \E p \in Procs : SaveState(p)
    \/ \E p \in Procs : Return(p)
    \/ \E p \in Procs : CleanDuplicates(p)
    \/ Tick

SpecCleanup == Init /\ [][NextCleanup]_vars

(***************************************************************************)
(* Runs repeated on one day by one scraper object, each observed when it   *)
(* returns.                                                                *)
(***************************************************************************)
\* scrape has returned its result to the caller, who notes what the run was
ReturnObserved(p) ==
    /\ pc[p] = "done"
    /\ pc' = [pc EXCEPT ![p] = "idle"]
    /\ run' = [run EXCEPT ![p] = NoRun]
    /\ hist' = [hist EXCEPT ![p] = NoHist]
    /\ last' = [status |-> run[p].result.status,
                from_date |-> run[p].from_date, to_date |-> run[p].to_date,
                records |-> Served(run[p].raw_documents)]
    /\ UNCHANGED <<today, now, results_files, state_file, current_year, m_doc, m_out, arg, ret>>

NextRerun ==
    \/ \E p \in Procs : Construct(p)
    \/ \E p \in Procs : \E f24, fcy \in BOOLEAN : Scrape(p, f24, fcy)
    \/ \E p \in Procs : UpToDate(p)
    \/ \E p \in Procs : FetchPage(p)
    \/ \E p \in Procs : Process(p)
    \/ \E p \in Procs : Persist(p)
    \/ \E p \in Procs : SaveState(p)
    \/ \E p \in Procs : ReturnObserved(p)

SpecRerun == Init /\ [][NextRerun]_vars

(***************************************************************************)
(* The matcher on its own: is_match applied to candidate records whose     *)
(* title is a phrase of up to MaxWords words, written with or without a    *)
(* blank between them, and whose text is absent or one more word.          *)
(***************************************************************************)
WordPool == {<<"O", "C", "P">>, <<"C", "V", "D">>, <<"d", "a", "p">>, <<"i", "n">>, <<"x">>}

Separators == {<<>>, <<" ">>}

RECURSIVE Phrases(_)
Phrases(n) ==
    IF n <= 1 THEN WordPool
    ELSE Phrases(n - 1)
         \cup {ph \o sep \o w : ph \in Phrases(n - 1), sep \in Separators, w \in WordPool}

MatchInputs ==
    {[TI |-> ti] : ti \in Phrases(MaxWords)}
    \cup {[TI |-> ti, TX |-> tx] : ti \in Phrases(MaxWords), tx \in {<<"M", "A", "P">>, <<"x">>}}
    \cup {[TI |-> ti, AU |-> AU_default, TE |-> te] :
            ti \in Phrases(1), te \in {<<"O", "C", "P">>, <<"x", " ", "M", "A", "P">>}}
    \cup {[TI |-> ti, TX |-> tx] : ti \in Phrases(1), tx \in {PyNone, PyInt}}
    \cup {[TI |-> PyNone, TX |-> <<"O", "C", "P", " ", "C", "V", "D">>],
          [TI |-> <<"O", "C", "P", " ", "C", "V", "D">>, TE |-> PyNone]}

InitMatch ==
    /\ today = date(2024, 6, 1)
    /\ now = 0
    /\ results_files = [y \in Years |-> NoFile]
    /\ state_file = NoFile
    /\ pc = [p \in Procs |-> "none"]
    /\ current_year = [p \in Procs |-> FirstYear]
    /\ run = [p \in Procs |-> NoRun]
    /\ hist = [p \in Procs |-> NoHist]
    /\ last = NoLast
    /\ m_doc \in MatchInputs
    /\ m_out = NoMatch
    /\ arg = NoCall
    /\ ret = NoCall

\* is_match(m_doc)
MatchCall ==
    /\ ~m_out.called
    /\ m_out' = IF is_match_raises(m_doc)
                THEN [NoMatch EXCEPT !.called = TRUE, !.raised = TRUE]
                ELSE [called |-> TRUE, raised |-> FALSE, is_match |-> is_match(m_doc).is_match,
                      groups_matched |-> is_match(m_doc).match_details.groups_matched]
    /\ UNCHANGED <<today, now, results_files, state_file, pc, current_year, run, hist, last, m_doc, arg, ret>>

\* extract_entities(m_doc)
EntitiesCall ==
    /\ ret.step = 0
    /\ ret' = IF extract_entities_raises(m_doc)
              THEN [step |-> 1, raised |-> TRUE, companies |-> {}, products |-> {}]
              ELSE [step |-> 1, raised |-> FALSE,
                    companies |-> extract_entities(m_doc).companies,
                    products |-> extract_entities(m_doc).products]
    /\ UNCHANGED <<today, now, results_files, state_file, pc, current_year, run, hist, last,
                   m_doc, m_out, arg>>

NextMatch == MatchCall \/ EntitiesCall

SpecMatch == InitMatch /\ [][NextMatch]_vars

(***************************************************************************)
(* _find_keyword_matches on its own: one keyword, plain or ending in the   *)
(* wildcard marker, searched in a phrase of up to MaxWords words; and the  *)
(* snippets is_match extracts for the keywords it matched.                 *)
(***************************************************************************)
\* sixty word characters
Filler == [i \in 1..60 |-> "y"]

\* records for the snippets of is_match: short and long texts, with and without a
\* title, with up to five matched keywords, and one that matches nothing
SnippetDocs ==
    {[TI |-> <<"O", "C", "P", " ", "C", "V", "D">>],
     [TI |-> <<"O", "C", "P", " ", "C", "V", "D", " ", "D", "A", "P", " ", "M", "A", "P", " ", "I", "C", "L">>],
     [TI |-> <<"x", "C", "V", "D", " ", "O", "C", "P", " ", "c", "v", "d">>],
     [TI |-> <<"t">>, TX |-> Filler \o <<" ", "O", "C", "P", " ", "C", "V", "D", " ">> \o Filler],
     [TX |-> Filler \o <<" ", "O", "C", "P", " ", "C", "V", "D", " ">> \o Filler],
     [TE |-> <<"O", "C", "P", " ", "M", "A", "P", " ">> \o Filler],
     [TI |-> <<"x">>]}

KeywordPool ==
    {<<"C", "V", "D">>, <<"O", "C", "P">>, <<"d", "a", "p">>,
     <<"D", "A", "P", "*">>, <<"d", "a", "p", "x", "*">>}

InitKeyword ==
    /\ today = date(2024, 6, 1)
    /\ now = 0
    /\ results_files = [y \in Years |-> NoFile]
    /\ state_file = NoFile
    /\ pc = [p \in Procs |-> "none"]
    /\ current_year = [p \in Procs |-> FirstYear]
    /\ run = [p \in Procs |-> NoRun]
    /\ hist = [p \in Procs |-> NoHist]
    /\ last = NoLast
    /\ m_doc = <<>>
    /\ m_out = NoMatch
    /\ arg \in {[step |-> 0, text |-> t, keyword |-> k] :
                    t \in Phrases(MaxWords), k \in KeywordPool}
               \cup {[step |-> 0, document |-> d] : d \in SnippetDocs}
    /\ ret = NoCall

\* self._find_keyword_matches(text, {keyword})
FindCall ==
    /\ ret.step = 0
    /\ "keyword" \in DOMAIN arg
    /\ ret' = [step |-> 1, matches |-> _find_keyword_matches(arg.text, {arg.keyword})]
    /\ UNCHANGED <<today, now, results_files, state_file, pc, current_year, run, hist, last,
                   m_doc, m_out, arg>>

\* match_details["matched_text_snippets"] as is_match(document) builds it
SnippetCall ==
    /\ ret.step = 0
    /\ "document" \in DOMAIN arg
    /\ \E keywords \in all_matched_keywords(arg.document) :
          ret' = [step |-> 1, keywords |-> keywords,
                  snippets |-> matched_text_snippets(arg.document, keywords)]
    /\ UNCHANGED <<today, now, results_files, state_file, pc, current_year, run, hist, last,
                   m_doc, m_out, arg>>

NextKeyword == FindCall \/ SnippetCall

SpecKeyword == InitKeyword /\ [][NextKeyword]_vars

(***************************************************************************)
(* Deduplication on its own: _clean_existing_duplicates on a corpus of up  *)
(* to MaxCorpus documents, _deduplicate_documents of a batch of up to      *)
(* MaxBatch candidates into the cleaned corpus, and the cleaning of the    *)
(* combined list, as scrape chains them.                                   *)
(***************************************************************************)
\* documents that share a number, share a title, have a number or none, a title or none
DedupDocs ==
    {[DN |-> "32024R0001", TI |-> TitleCvd, DD |-> <<2024, 1, 15>>],
     [DN |-> "32024R0001", TI |-> TitleDap, DD |-> <<2024, 6, 2>>],
     [DN |-> "32024R0003", TI |-> TitleCvd],
     [TI |-> TitleCvd, url |-> "u1"],
     [TI |-> TitleCvd, url |-> "u2"],
     [TI |-> TitleMap, url |-> "u3"],
     [url |-> "u4"]}

RECURSIVE ListsUpTo(_, _)
ListsUpTo(S, n) ==
    IF n = 0 THEN {<<>>}
    ELSE ListsUpTo(S, n - 1) \cup {Append(l, x) : l \in ListsUpTo(S, n - 1), x \in S}

InitDedup ==
    /\ today = date(2024, 6, 1)
    /\ now = 0
    /\ results_files = [y \in Years |-> NoFile]
    /\ state_file = NoFile
    /\ pc = [p \in Procs |-> "none"]
    /\ current_year = [p \in Procs |-> FirstYear]
    /\ run = [p \in Procs |-> NoRun]
    /\ hist = [p \in Procs |-> NoHist]
    /\ last = NoLast
    /\ m_doc = <<>>
    /\ m_out = NoMatch
    /\ arg \in {[step |-> 0, corpus |-> c, batch |-> n] :
                    c \in ListsUpTo(DedupDocs, MaxCorpus), n \in ListsUpTo(DedupDocs, MaxBatch)}
    /\ ret = NoCall

\* existing_results = self._clean_existing_duplicates(existing_results)
CleanCall ==
    /\ ret.step = 0
    /\ "corpus" \in DOMAIN arg
    /\ ret' = [step |-> 1, cleaned |-> _clean_existing_duplicates(arg.corpus)]
    /\ UNCHANGED <<today, now, results_files, state_file, pc, current_year, run, hist, last,
                   m_doc, m_out, arg>>

\* unique_new = self._deduplicate_documents(existing_results, enriched_documents)
MergeCall ==
    /\ ret.step = 1
    /\ ret' = [step |-> 2, cleaned |-> ret.cleaned,
               unique_new |-> _deduplicate_documents(ret.cleaned, arg.batch)]
    /\ UNCHANGED <<today, now, results_files, state_file, pc, current_year, run, hist, last,
                   m_doc, m_out, arg>>

\* the next load cleans what was saved: existing_results + unique_new, and the cleaned
\* corpus alone
CleanAgainCall ==
    /\ ret.step = 2
    /\ ret' = [step |-> 3, cleaned |-> ret.cleaned, unique_new |-> ret.unique_new,
               cleaned_all |-> _clean_existing_duplicates(ret.cleaned \o ret.unique_new),
               cleaned_twice |-> _clean_existing_duplicates(ret.cleaned)]
    /\ UNCHANGED <<today, now, results_files, state_file, pc, current_year, run, hist, last,
                   m_doc, m_out, arg>>

\* the two functions on the batch alone: _deduplicate_documents against an empty
\* corpus, and _clean_existing_duplicates
BatchAloneCall ==
    /\ ret.step = 3
    /\ ret' = [step |-> 4, cleaned |-> ret.cleaned, unique_new |-> ret.unique_new,
               cleaned_all |-> ret.cleaned_all, cleaned_twice |-> ret.cleaned_twice,
               merged_alone |-> _deduplicate_documents(<<>>, arg.batch),
               cleaned_batch |-> _clean_existing_duplicates(arg.batch)]
    /\ UNCHANGED <<today, now, results_files, state_file, pc, current_year, run, hist, last,
                   m_doc, m_out, arg>>

NextDedup == CleanCall \/ MergeCall \/ CleanAgainCall \/ BatchAloneCall

SpecDedup == InitDedup /\ [][NextDedup]_vars

(***************************************************************************)
(* The two entry points as two processes on one data directory: the API    *)
(* process, whose module builds one scraper and whose endpoint calls its   *)
(* scrape(), and a command-line invocation, which builds its own.  Neither *)
(* takes a lock, so nothing orders the file accesses of the one against    *)
(* those of the other.                                                     *)
(***************************************************************************)
EntryPoints == {"api", "cli"}

InitEntry ==
    /\ today = date(2024, 6, 1)
    /\ now = 0
    /\ results_files = [y \in Years |-> NoFile]
    /\ state_file = NoFile
    /\ pc = [p \in EntryPoints |-> "none"]
    /\ current_year = [p \in EntryPoints |-> FirstYear]
    /\ run = [p \in EntryPoints |-> NoRun]
    /\ hist = [p \in EntryPoints |-> NoHist]
    /\ last = NoLast
    /\ m_doc = <<>>
    /\ m_out = NoMatch
    /\ arg = NoCall
    /\ ret = NoCall

\* POST /api/scrape: the endpoint calls scrape() of the module's scraper with its flags
trigger_scrape(force_full_2024, force_current_year) ==
    scrape_plan("api", force_full_2024, force_current_year)

\* run_scraper.py: main() calls scrape() of the scraper it built with its flags
main(force_full_2024, force_current_year) ==
    scrape_plan("cli", force_full_2024, force_current_year)

NextEntry ==
    \/ \E p \in EntryPoints : __init__(p)
    \/ \E f24 \in BOOLEAN : trigger_scrape(f24, FALSE)
    \/ main(FALSE, FALSE)
    \/ \E p \in EntryPoints : UpToDate(p)
    \/ \E p \in EntryPoints : FetchPage(p)
    \/ \E p \in EntryPoints : Process(p)
    \/ \E p \in EntryPoints : Persist(p)
    \/ \E p \in EntryPoints : SaveState(p)
    \/ \E p \in EntryPoints : Return(p)

SpecEntry == InitEntry /\ [][NextEntry]_vars

(***************************************************************************)
(* export_csv on its own, on a results file that runs of the scraper can   *)
(* have left (or that was damaged since) and with the filters of the       *)
(* export endpoint.  The CSV text is the list of its lines, a line the     *)
(* list of its cells; "" is the empty list.                                *)
(***************************************************************************)
csv_header ==
    <<"Publication Date", "Title", "Type", "Document Number", "Author", "EUR-Lex URL",
      "Companies", "Products", "Excerpts", "Scraped At", "Measure Keywords",
      "Product Keywords", "Place/Company Keywords", "Groups Matched", "Total Groups",
      "Matched Text Snippets">>

\* a filter value that is set (Python truthiness of filters.get(key))
Filter(filters, key) == Get(filters, key, <<>>)

\* _apply_filters
_apply_filters(results, filters) ==
    LET start_ok(doc) == Filter(filters, "start_date") # <<>> =>
                            ~StrLess(Get(doc, "publication_date", <<>>), filters.start_date)
        end_ok(doc) == Filter(filters, "end_date") # <<>> =>
                            ~StrLess(filters.end_date, Get(doc, "publication_date", <<>>))
        author_ok(doc) == Filter(filters, "author") # <<>> =>
                            Contains(lower(Get(doc, "author", <<>>)), lower(filters.author))
        company_ok(doc) == Filter(filters, "company") # <<>> =>
                            \E company \in Get(doc, "companies", {}) :
                                Contains(lower(company), lower(filters.company))
        product_ok(doc) == Filter(filters, "product") # <<>> =>
                            \E product \in Get(doc, "products", {}) :
                                Contains(lower(product), lower(filters.product))
        search_ok(doc) == Filter(filters, "search") # <<>> =>
                            \/ Contains(lower(Get(doc, "title", <<>>)), lower(filters.search))
                            \/ Contains(lower(Get(doc, "text", <<>>)), lower(filters.search))
    IN  SelectSeq(results, LAMBDA doc : /\ start_ok(doc) /\ end_ok(doc) /\ author_ok(doc)
                                        /\ company_ok(doc) /\ product_ok(doc) /\ search_ok(doc))

\* the row of one document: its 16 cells
csv_row(doc) ==
    LET match_details == Get(doc, "match_details", <<>>)
    IN  <<Get(doc, "publication_date", <<>>),
          Get(doc, "title", <<>>),
          Get(doc, "form", <<>>),
          Get(doc, "document_number", ""),
          Get(doc, "author", <<>>),
          Get(doc, "eurlex_url", <<>>),
          Get(doc, "companies", {}),
          Get(doc, "products", {}),
          Get(doc, "text_excerpt", <<>>),
          Get(doc, "scraped_at", <<>>),
          Get(match_details, "measure_keywords", {}),
          Get(match_details, "product_keywords", {}),
          Get(match_details, "place_company_keywords", {}),
          Get(match_details, "groups_matched", <<>>),
          Get(match_details, "total_groups", <<>>),
          Get(match_details, "matched_text_snippets", <<>>)>>

\* the rows that export_csv makes of the documents results
csv_lines(results) == <<csv_header>> \o [i \in 1..Len(results) |-> csv_row(results[i])]

\* the export with the header row written whatever the result
export_csv_header_always(file, filters) ==
    LET loaded == _load_results(file)
        results == IF filters # <<>> THEN _apply_filters(loaded, filters) ELSE loaded
    IN  csv_lines(results)

\* export_csv
export_csv(file, filters) ==
    LET loaded == _load_results(file)
        results == IF filters # <<>> THEN _apply_filters(loaded, filters) ELSE loaded
    IN  IF results = <<>> THEN <<>> ELSE csv_lines(results)

\* the documents a run at time 1 persists of what the site serves
ExportDocs ==
    UNION {DocSet(_enrich_documents(filter_documents(ParsedPage(SitePage(n), 1)), 1)) :
             n \in 1..(MaxFeedPages + 1)}

\* results files: absent, written with up to MaxCorpus documents, or damaged since
ExportFiles ==
    {NoFile}
    \cup {JsonFile(docs) : docs \in ListsUpTo(ExportDocs, MaxCorpus)}
    \cup {[JsonFile(docs) EXCEPT !.readable = FALSE] : docs \in ListsUpTo(ExportDocs, MaxCorpus) \ {<<>>}}

\* filters as the export endpoint builds them: none, or the parameters that are set
ExportFilters ==
    {<<>>,
     [start_date |-> <<2024, 6, 1>>],
     [end_date |-> <<2024, 3, 1>>],
     [author |-> <<"p", "e", "a", "n">>],
     [company |-> <<"i", "c", "l">>],
     [product |-> <<"D", "A", "P">>],
     [search |-> <<"z", "z">>],
     [start_date |-> <<2024, 1, 1>>, search |-> <<"r", "u", "l", "i", "n", "g">>]}

InitExport ==
    /\ today = date(2024, 6, 1)
    /\ now = 0
    /\ results_files = [y \in Years |-> NoFile]
    /\ state_file = NoFile
    /\ pc = [p \in Procs |-> "none"]
    /\ current_year = [p \in Procs |-> FirstYear]
    /\ run = [p \in Procs |-> NoRun]
    /\ hist = [p \in Procs |-> NoHist]
    /\ last = NoLast
    /\ m_doc = <<>>
    /\ m_out = NoMatch
    /\ arg \in {[step |-> 0, file |-> f, filters |-> fl] : f \in ExportFiles, fl \in ExportFilters}
    /\ ret = NoCall

\* scraper.export_csv(filters)
ExportCall ==
    /\ ret.step = 0
    /\ "file" \in DOMAIN arg
    /\ ret' = [step |-> 1, csv |-> export_csv(arg.file, arg.filters)]
    /\ UNCHANGED <<today, now, results_files, state_file, pc, current_year, run, hist, last,
                   m_doc, m_out, arg>>

NextExport == ExportCall

SpecExport == InitExport /\ [][NextExport]_vars

(***************************************************************************)
(* Claims.                                                                 *)
(***************************************************************************)
\* some keyword of the group matches the blob of the record
GroupHit(keywords, document) ==
    \E keyword \in keywords :
        KeywordMatches(keyword, _normalize_text(searchable_text(document)))

ReturnNoted(p) ==
    /\ pc[p] = "done"
    /\ pc' = [pc EXCEPT ![p] = "idle"]
    /\ run' = [run EXCEPT ![p] = NoRun]
    /\ hist' = [hist EXCEPT ![p] = NoHist]
    /\ last' = [NoLast EXCEPT !.status = run[p].result.status, !.to_date = today]
    /\ UNCHANGED <<today, now, results_files, state_file, current_year, m_doc, m_out, arg, ret>>

NextClock ==
    \/ \E p \in Procs : Construct(p)
    \/ \E p \in Procs : Exit(p)
    \/ \E p \in Procs : \E f24, fcy \in BOOLEAN : Scrape(p, f24, fcy)
    \/ \E p \in Procs : UpToDate(p)
    \/ \E p \in Procs : FetchPage(p)
    \/ \E p \in Procs : Process(p)
    \/ \E p \in Procs : Persist(p)
    \/ \E p \in Procs : SaveState(p)
    \/ \E p \in Procs : ReturnNoted(p)
    \/ Tick

SpecClock == Init /\ [][NextClock]_vars

(***************************************************************************)
(* Claims about a crawl run.                                               *)
(***************************************************************************)
\* last_checked_date as stored in state.json (null when there is no state)
StoredWatermark(file) ==
    IF file.exists /\ file.readable THEN Get(file.data, "last_checked_date", JsonNull)
    ELSE JsonNull

\* C2: every results file holds at most one document per non-empty document_number,
\* and among its documents without document_number at most one per non-empty title.
C2_UniqueIdentity ==
    \A y \in Years :
        LET docs == DocsOf(results_files[y])
        IN  \A i, j \in 1..Len(docs) :
                i < j =>
                    /\ docs[i].document_number # "" =>
                          docs[i].document_number # docs[j].document_number
                    /\ (docs[i].document_number = "" /\ docs[j].document_number = ""
                        /\ docs[i].title # <<>>) =>
                          docs[i].title # docs[j].title

\* C2 witness: a run that matched a duplicate by number and a duplicate by title has
\* written its survivors, one with and one without a document number
C2_Witness ==
    \E p \in Procs :
        /\ pc[p] = "done"
        /\ Len(run[p].unique_new) + 2 <= Len(run[p].matched_documents)
        /\ DocsOf(results_files[current_year[p]]) = run[p].all_results
        /\ \E i, j \in 1..Len(run[p].all_results) :
              /\ run[p].all_results[i].document_number # ""
              /\ run[p].all_results[j].document_number = ""

\* C3: when scrape returns status error, state.json and the results files are what
\* they were when the run began.
C3_ErrorWritesNothing ==
    \A p \in Procs :
        (pc[p] = "done" /\ run[p].result.status = "error") =>
            /\ state_file = hist[p].pre_state
            /\ results_files = hist[p].pre_results

\* C3 witness: a run ended with status error over a corpus that holds documents and a
\* state that an earlier run wrote
C3_Witness ==
    \E p \in Procs :
        /\ pc[p] = "done"
        /\ run[p].result.status = "error"
        /\ DocsOf(results_files[current_year[p]]) # <<>>
        /\ state_file.exists /\ state_file.data.last_run # NullTime

\* C4 as claimed: when the write of the merged corpus fails, scrape returns status
\* error and state.json keeps its value from before the run.
C4_Claim ==
    \A p \in Procs :
        (pc[p] = "done" /\ hist[p].results_write = "raises") =>
            /\ run[p].result.status = "error"
            /\ state_file = hist[p].pre_state

\* C5 as claimed: when loading the results file raises, the run reports status error
\* and every document the file held before the run is still in it.
C5_Claim ==
    \A p \in Procs :
        (pc[p] = "done" /\ hist[p].load_raised) =>
            /\ run[p].result.status = "error"
            /\ DocSet(DocsOf(hist[p].pre_results[current_year[p]]))
                  \subseteq DocSet(DocsOf(results_files[current_year[p]]))

\* no load or write of a store has raised in the run of p
StoresHeld(p) ==
    /\ ~hist[p].load_raised
    /\ hist[p].results_write # "raises"
    /\ hist[p].state_write # "raises"

\* C6 as claimed: a run whose pagination was cut short by a page-fetch error leaves
\* last_checked_date at its previous value (stated for the runs whose stores held).
C6_Claim ==
    \A p \in Procs :
        (pc[p] = "done" /\ hist[p].fetch_error /\ StoresHeld(p)) =>
            StoredWatermark(state_file) = StoredWatermark(hist[p].pre_state)

\* C7 as claimed: after a page fetch failed no further page is requested, no record
\* of that run is added to the persisted corpus, and the documents of earlier runs
\* are all kept (stated for the runs whose stores held).
C7_Claim ==
    \A p \in Procs :
        (hist[p].fetch_error /\ StoresHeld(p)) =>
            /\ pc[p] # "fetching"
            /\ DocSet(DocsOf(results_files[current_year[p]]))
                  = DocSet(DocsOf(hist[p].pre_results[current_year[p]]))

\* the day after a calendar date, on the "YYYY-MM-DD" form
NextDay(ymd) ==
    IF ymd[3] < DaysInMonth(ymd[1], ymd[2]) THEN <<ymd[1], ymd[2], ymd[3] + 1>>
    ELSE IF ymd[2] < 12 THEN <<ymd[1], ymd[2] + 1, 1>>
    ELSE <<ymd[1] + 1, 1, 1>>

\* C8: without an override flag the window ends today; it begins the day after the
\* stored last_checked_date when that is a valid date, and on 2024-01-01 when
\* last_checked_date is null or state.json is absent.
C8_IncrementalWindow ==
    \A p \in Procs :
        (pc[p] \in {"fetching", "up_to_date"} /\ hist[p].mode = "incremental") =>
            LET file == hist[p].pre_state
                lcd == StoredWatermark(file)
            IN  /\ run[p].to_date = today
                /\ (file.exists /\ lcd.kind = "str" /\ IsCalendarDate(lcd.ymd)) =>
                      isoformat(run[p].from_date) = NextDay(lcd.ymd)
                /\ (~file.exists \/ lcd = JsonNull) =>
                      isoformat(run[p].from_date) = <<2024, 1, 1>>

\* C8 witness: the stored watermark is 2024-06-01 and the planned window begins on
\* 2024-06-02
C8_Witness ==
    \E p \in Procs :
        /\ pc[p] = "fetching"
        /\ hist[p].mode = "incremental"
        /\ StoredWatermark(hist[p].pre_state) = JsonDate(<<2024, 6, 1>>)
        /\ isoformat(run[p].from_date) = <<2024, 6, 2>>

\* C9 as claimed: a run with from_date > to_date returns up_to_date with no new
\* document and without a page request, leaves the results files as they were, and
\* has written state.json with last_checked_date = to_date, a fresh last_run and
\* total_documents = the size of the corpus before the call.
C9_Claim ==
    \A p \in Procs :
        (pc[p] = "done" /\ hist[p].path = "up_to_date") =>
            /\ run[p].result.status = "up_to_date"
            /\ run[p].result.new_documents = 0
            /\ hist[p].pages = 0
            /\ results_files = hist[p].pre_results
            /\ state_file.exists
            /\ state_file.data =
                  StateRecord(JsonDate(isoformat(run[p].to_date)), now,
                              Len(DocsOf(hist[p].pre_results[current_year[p]])))

\* docs is in descending order of publication_date
SortedDesc(docs) ==
    \A i, j \in 1..Len(docs) : i < j => ~StrLess(SortKey(docs[i]), SortKey(docs[j]))

\* how often d occurs in docs
Count(docs, d) == Cardinality({i \in 1..Len(docs) : docs[i] = d})

\* C10 as claimed: after a successful run that found new documents the results file
\* holds the previously persisted documents and the unique new ones, each once and
\* nothing else, in descending order of publication_date, and last_checked_date is
\* to_date.
C10_Claim ==
    \A p \in Procs :
        (pc[p] = "done" /\ run[p].result.status = "success"
         /\ run[p].result.new_documents > 0) =>
            LET before == DocsOf(hist[p].pre_results[current_year[p]])
                written == DocsOf(results_files[current_year[p]])
            IN  /\ DocSet(written) = DocSet(before) \cup DocSet(run[p].unique_new)
                /\ \A d \in DocSet(written) : Count(written, d) = 1
                /\ SortedDesc(written)
                /\ StoredWatermark(state_file) = JsonDate(isoformat(run[p].to_date))

\* the run of p repeats the run that returned before it: that run reported success,
\* and this one has the same window and was served the same records
Repeats(p) ==
    /\ last.status = "success"
    /\ last.from_date = run[p].from_date
    /\ last.to_date = run[p].to_date
    /\ last.records = Served(run[p].raw_documents)

\* C11 as claimed: a run that repeats the run before it, over the same window and with
\* the same records served, reports new_documents = 0 and leaves the results files
\* as they were.
C11_Claim ==
    \A p \in Procs :
        (pc[p] = "done" /\ run[p].result.status = "success" /\ Repeats(p)) =>
            /\ run[p].result.new_documents = 0
            /\ results_files = hist[p].pre_results

\* C12: cleaning is idempotent on what scrape builds: cleaning clean(C) followed by
\* merge(clean(C), N) removes no document, and cleaning clean(C) gives clean(C).
C12_CleanIdempotent ==
    ret.step = 3 =>
        /\ ret.cleaned_all = ret.cleaned \o ret.unique_new
        /\ ret.cleaned_twice = ret.cleaned

\* C12 witness: the first cleaning dropped a document of the corpus, the merge dropped
\* a candidate and kept another, and the second cleaning has run
C12_Witness ==
    /\ ret.step = 3
    /\ Len(ret.cleaned) < Len(arg.corpus)
    /\ ret.unique_new # <<>>
    /\ Len(ret.unique_new) < Len(arg.batch)

\* the non-empty document numbers, and the non-empty titles, of the documents docs[i], i in idx
NumbersAt(docs, idx) == {DnOf(docs[i]) : i \in idx} \ {""}
TitlesAt(docs, idx) == {TiOf(docs[i]) : i \in idx} \ {<<>>}

\* candidate i is a duplicate, given the set kept of the candidates that survive: its
\* number is non-empty and is that of an existing document or of a survivor before it,
\* or it has no number and its non-empty title is that of an existing document or of a
\* survivor before it
IsDuplicate(existing, new, kept, i) ==
    LET before == {j \in kept : j < i}
        numbers == NumbersAt(existing, 1..Len(existing)) \cup NumbersAt(new, before)
        titles == TitlesAt(existing, 1..Len(existing)) \cup TitlesAt(new, before)
    IN  \/ DnOf(new[i]) # "" /\ DnOf(new[i]) \in numbers
        \/ DnOf(new[i]) = "" /\ TiOf(new[i]) # <<>> /\ TiOf(new[i]) \in titles

\* the candidates that survive: the one set that holds exactly the non-duplicates
Survivors(existing, new) ==
    CHOOSE kept \in SUBSET (1..Len(new)) :
        \A i \in 1..Len(new) : i \in kept <=> ~IsDuplicate(existing, new, kept, i)

\* new[i], i in idx, in the order of new
RECURSIVE Pick(_, _, _)
Pick(new, idx, i) ==
    IF i > Len(new) THEN <<>>
    ELSE (IF i \in idx THEN <<new[i]>> ELSE <<>>) \o Pick(new, idx, i + 1)

\* C20: _deduplicate_documents returns, in input order, exactly the candidates that are
\* no duplicate; the number set and the title set start from the existing corpus and
\* grow with each survivor, so of the duplicates inside a batch the first one is kept.
C20_MergeRule ==
    ret.step >= 2 =>
        ret.unique_new = Pick(arg.batch, Survivors(ret.cleaned, arg.batch), 1)

\* C20 witness: the batch holds two different candidates with one document number that
\* the corpus does not hold, and the merge has kept the first of them only
C20_Witness ==
    /\ ret.step >= 2
    /\ Len(arg.batch) = 2
    /\ DnOf(arg.batch[1]) # "" /\ DnOf(arg.batch[1]) = DnOf(arg.batch[2])
    /\ arg.batch[1] # arg.batch[2]
    /\ ret.unique_new = <<arg.batch[1]>>

\* C13: a run with force_current_year set (mode "current_year", whether or not
\* force_full_2024 is set as well) has the window [1 January of today's year, today];
\* otherwise a run with force_full_2024 set has the window [2024-01-01, today]; in both
\* cases whatever last_checked_date holds, the planning does not raise.
C13_ForcedWindow ==
    \A p \in Procs :
        (pc[p] \notin {"none", "idle"} /\ hist[p].mode \in {"current_year", "full_2024"}) =>
            /\ hist[p].path # "raised"
            /\ run[p].to_date = today
            /\ hist[p].mode = "current_year" =>
                  isoformat(run[p].from_date) = <<isoformat(today)[1], 1, 1>>
            /\ hist[p].mode = "full_2024" =>
                  isoformat(run[p].from_date) = <<2024, 1, 1>>

\* C13 witness: a run forced to the current year in 2025, while last_checked_date holds
\* a number
C13_Witness ==
    \E p \in Procs :
        /\ pc[p] = "fetching"
        /\ hist[p].mode = "current_year"
        /\ isoformat(today)[1] = 2025
        /\ StoredWatermark(hist[p].pre_state) = JsonNumber
        /\ isoformat(run[p].from_date) = <<2025, 1, 1>>

\* last_checked_date holds a value that does not parse as a YYYY-MM-DD date
Unparsable(lcd) == lcd.kind = "num" \/ (lcd.kind = "str" /\ ~IsCalendarDate(lcd.ymd))

\* C14 as claimed: when last_checked_date holds a value that does not parse as a date
\* (a string of another shape, an impossible date, a value that is no string), a run
\* without override plans from_date = 2024-01-01 and does not end with status error.
C14_Claim ==
    \A p \in Procs :
        (pc[p] \notin {"none", "idle"} /\ hist[p].mode = "incremental"
         /\ Unparsable(StoredWatermark(hist[p].pre_state))) =>
            /\ run[p].result.status # "error"
            /\ isoformat(run[p].from_date) = <<2024, 1, 1>>

\* keyword, lower-cased, is a substring of the lower-cased blob of title, text, subject,
\* author and text excerpt
InBlob(keyword, document) == Contains(lower(searchable_text(document)), lower(keyword))

\* C15 as claimed: extract_entities returns as companies the place/company keywords,
\* country names left out, that are substrings of the blob of title, text, subject,
\* author and text excerpt, and as products the product keywords that are.
C15_Claim ==
    (ret.step = 1 /\ "companies" \in DOMAIN ret /\ ~ret.raised) =>
        /\ ret.companies = {k \in place_company_keywords \ country_names : InBlob(k, m_doc)}
        /\ ret.products = {k \in product_keywords : InBlob(k, m_doc)}

\* the record with every value that is no str replaced by the empty string
AsStrings(document) ==
    [k \in DOMAIN document |-> IF IsStr(document[k]) THEN document[k] ELSE <<>>]

\* C17 as claimed: is_match returns for every record, and a field whose value is null
\* or no string counts as the empty string.
C17_Claim ==
    m_out.called =>
        /\ ~m_out.raised
        /\ m_out.is_match = is_match(AsStrings(m_doc)).is_match

\* C16 as claimed: a scraped_at that a record carries when the gateway hands it over
\* is the scraped_at of the matched and enriched document made from it.
C16_Claim ==
    \A p \in Procs :
        pc[p] \in {"persist", "save_state", "done"} =>
            \A i \in 1..Len(run[p].matched_documents) :
                \E j \in 1..Len(run[p].raw_documents) :
                    LET raw == run[p].raw_documents[j]
                        doc == run[p].matched_documents[i]
                    IN  /\ \A k \in DOMAIN raw \ {"scraped_at"} : doc[k] = raw[k]
                        /\ "scraped_at" \in DOMAIN raw
                        /\ doc.scraped_at = raw.scraped_at

\* the documents in the file that pass the filters (all of them when no filter is set)
Exported(file, filters) ==
    LET results == IF file.exists /\ file.readable THEN DocsOf(file) ELSE <<>>
    IN  IF filters = <<>> THEN results ELSE _apply_filters(results, filters)

\* C18: export_csv returns the empty text, without a header row, when the corpus is
\* empty or no document passes the filters; otherwise its first line is the fixed
\* header row of 16 columns, followed by one row of 16 cells per exported document.
C18_ExportHeader ==
    ret.step = 1 /\ "csv" \in DOMAIN ret =>
        LET exported == Exported(arg.file, arg.filters)
        IN  /\ exported = <<>> => ret.csv = <<>>
            /\ exported # <<>> =>
                  /\ Len(ret.csv) = Len(exported) + 1
                  /\ ret.csv[1] = csv_header
                  /\ Len(ret.csv[1]) = 16
                  /\ \A i \in 2..Len(ret.csv) : Len(ret.csv[i]) = 16

\* C18 witness: an export with a filter that passes one of the two documents in the
\* file, and the header row in front of its row
C18_Witness ==
    /\ ret.step = 1 /\ "csv" \in DOMAIN ret
    /\ arg.filters # <<>>
    /\ Len(DocsOf(arg.file)) = 2
    /\ Len(ret.csv) = 2
    /\ ret.csv[1] = csv_header

\* the document numbers and, of the documents without one, the titles in docs
Identities(docs) ==
    {<<"number", DnOf(docs[i])>> : i \in {j \in 1..Len(docs) : NonEmptyStr(DnOf(docs[j]))}}
    \cup {<<"title", Get(docs[i], "title", <<>>)>> :
             i \in {j \in 1..Len(docs) : ~NonEmptyStr(DnOf(docs[j]))}}

\* C19 as claimed: runs started through the entry points own both stores from their
\* load of the corpus to their state write, so a document that a run has added to the
\* corpus is in the corpus when the run returns, whatever the other entry point did.
C19_Claim ==
    \A p \in DOMAIN pc :
        pc[p] = "done" /\ run[p].result.status = "success" /\ hist[p].results_write = "ok" =>
            Identities(run[p].unique_new)
                \subseteq Identities(DocsOf(results_files[current_year[p]]))

\* C21 as claimed: merging a candidate list into an empty corpus keeps exactly the
\* documents, in the same order, that cleaning the list keeps.
C21_Claim ==
    ret.step = 4 => ret.merged_alone = ret.cleaned_batch

\* C22: after any sequence of crawl runs and duplicate cleanups from an empty data
\* directory, every results file holds its documents in descending order of
\* publication_date.
C22_CorpusSorted ==
    \A y \in Years : SortedDesc(DocsOf(results_files[y]))

\* C22 witness: a cleanup has loaded the three documents that a run had saved, found
\* one title twice among them and saved its list, and the file holds them with the
\* latest date first
C22_Witness ==
    /\ last.status = "cleaned"
    /\ Len(last.records) = 3
    /\ Repeated([i \in 1..Len(last.records) |-> TiOf(last.records[i])], <<>>) > 0
    /\ \E y \in Years :
          LET docs == DocsOf(results_files[y])
          IN  /\ docs = last.records
              /\ StrLess(SortKey(docs[2]), SortKey(docs[1]))
              /\ StrLess(SortKey(docs[3]), SortKey(docs[2]))

\* total_documents as stored in state.json (-1 when there is no state)
StoredTotal(file) ==
    IF file.exists /\ file.readable THEN Get(file.data, "total_documents", -1) ELSE -1

\* C23 as claimed: when a run has ended with status success or up_to_date,
\* total_documents in state.json is the number of documents in the results file of
\* the run, also when the run added no document.
C23_Claim ==
    \A p \in Procs :
        (pc[p] = "done" /\ run[p].result.status \in {"success", "up_to_date"}) =>
            StoredTotal(state_file) = Len(DocsOf(results_files[current_year[p]]))

Tokens(text) ==
    {SubSeq(text, ab[1], ab[2]) : ab \in
        {ab \in (1..Len(text)) \X (1..Len(text)) :
            /\ ab[1] <= ab[2]
            /\ \A i \in ab[1]..ab[2] : IsWordChar(text[i])
            /\ ab[1] = 1 \/ ~IsWordChar(text[ab[1] - 1])
            /\ ab[2] = Len(text) \/ ~IsWordChar(text[ab[2] + 1])}}

\* C25 as claimed: a keyword without the wildcard marker is reported as matched only
\* if, case-insensitively, it is a whole word of the text; an occurrence glued to the
\* letters of another word is no match.
C25_Claim ==
    (ret.step = 1 /\ "matches" \in DOMAIN ret /\ ~HasStar(arg.keyword)) =>
        (arg.keyword \in ret.matches => lower(arg.keyword) \in Tokens(lower(arg.text)))

\* keyword with one of the words in, from, to, of written in front of it
Glued(keyword) ==
    {prefix \o keyword :
        prefix \in {<<"i", "n">>, <<"f", "r", "o", "m">>, <<"t", "o">>, <<"o", "f">>}}

\* C25, amended: a keyword without the wildcard marker is reported as matched exactly
\* when, case-insensitively, a word of the text is the keyword, or is the keyword with
\* in, from, to or of glued in front of it; glued to anything else it is no match.
C25_WordRule ==
    (ret.step = 1 /\ "matches" \in DOMAIN ret /\ ~HasStar(arg.keyword)) =>
        (arg.keyword \in ret.matches <=>
            Tokens(lower(arg.text)) \cap ({lower(arg.keyword)} \cup Glued(lower(arg.keyword))) # {})

\* C25 witness: CVD was searched in a text that has it only glued behind "in" and
\* was reported; and the text has a second word
C25_Witness ==
    /\ ret.step = 1 /\ "matches" \in DOMAIN ret
    /\ arg.keyword = <<"C", "V", "D">>
    /\ arg.keyword \in ret.matches
    /\ <<"i", "n", "c", "v", "d">> \in Tokens(lower(arg.text))
    /\ <<"c", "v", "d">> \notin Tokens(lower(arg.text))
    /\ Cardinality(Tokens(lower(arg.text))) = 2

\* s is the beginning of t
IsPrefix(s, t) == Len(s) <= Len(t) /\ SubSeq(t, 1, Len(s)) = s

Slice(text, start, end) == SubSeq(text, start + 1, end)

\* the snippet of keyword in blob as claimed: the blob from 50 characters before to 50
\* characters after the first occurrence of the keyword, cut at the bounds of the blob,
\* without blanks at its ends, between ellipsis markers
SnippetAround(blob, keyword) ==
    LET at == FirstAt(lower(blob), lower(keyword))
    IN  <<".", ".", ".">>
        \o strip(Slice(blob, Max(0, at - 50), Min(Len(blob), at + Len(keyword) + 50)))
        \o <<".", ".", ".">>

\* C27 as claimed: is_match returns at most 3 snippets, one for each of the first
\* matched keywords; each is the blob from 50 characters before to 50 characters after
\* the first occurrence of its keyword, and contains the keyword, case-insensitively.
C27_Claim ==
    (ret.step = 1 /\ "snippets" \in DOMAIN ret) =>
        /\ Len(ret.snippets) = Min(3, Len(ret.keywords))
        /\ \A i \in 1..Len(ret.snippets) :
              /\ ret.snippets[i] = SnippetAround(searchable_text(arg.document), ret.keywords[i])
              /\ Contains(lower(ret.snippets[i]), lower(ret.keywords[i]))

(***************************************************************************)
(* search_documents on its own: the page loop of the gateway, for a cap of *)
(* 1, 2 or the 10 pages a crawl run asks for; each request fails, or       *)
(* parses to no record, or parses to the records of a page.                *)
(***************************************************************************)
SearchCaps == {1, 2, max_pages}

SearchPages == {<<>>, ParsedPage(SitePage(1), 0), ParsedPage(SitePage(3), 0)}

\* range(1, max_pages + 1) with one page too many
search_range_one_more(cap) == 1..(cap + 1)

\* range(1, max_pages + 1)
search_range(cap) == 1..cap

InitSearch ==
    /\ today = date(2024, 6, 1)
    /\ now = 0
    /\ results_files = [y \in Years |-> NoFile]
    /\ state_file = NoFile
    /\ pc = [p \in Procs |-> "none"]
    /\ current_year = [p \in Procs |-> FirstYear]
    /\ run = [p \in Procs |-> NoRun]
    /\ hist = [p \in Procs |-> NoHist]
    /\ last = NoLast
    /\ m_doc = <<>>
    /\ m_out = NoMatch
    /\ arg \in {[step |-> 0, max_pages |-> cap] : cap \in SearchCaps}
    /\ ret = NoCall

SearchRest == <<today, now, results_files, state_file, pc, current_year, run, hist, last,
                m_doc, m_out, arg>>

\* all_documents = [], and the loop is entered
SearchEnter ==
    /\ ret.step = 0
    /\ "max_pages" \in DOMAIN arg
    /\ ret' = [step |-> 1, page_num |-> 1, requests |-> <<>>, outcomes |-> <<>>,
               all_documents |-> <<>>, broke |-> FALSE]
    /\ UNCHANGED SearchRest

\* one turn of the loop: the request of page_num and what becomes of it
SearchPage ==
    /\ ret.step = 1
    /\ ~ret.broke
    /\ ret.page_num \in search_range(arg.max_pages)
    /\ \/ ret' = [ret EXCEPT !.requests = Append(@, ret.page_num),
                              !.outcomes = Append(@, "fails"),
                              !.broke = TRUE]
       \/ \E documents \in SearchPages :
             ret' = IF documents = <<>>
                    THEN [ret EXCEPT !.requests = Append(@, ret.page_num),
                                     !.outcomes = Append(@, "empty"),
                                     !.broke = TRUE]
                    ELSE [ret EXCEPT !.requests = Append(@, ret.page_num),
                                     !.outcomes = Append(@, "documents"),
                                     !.all_documents = @ \o documents,
                                     !.page_num = @ + 1]
    /\ UNCHANGED SearchRest

\* return all_documents
SearchReturn ==
    /\ ret.step = 1
    /\ ret.broke \/ ret.page_num \notin search_range(arg.max_pages)
    /\ ret' = [ret EXCEPT !.step = 2]
    /\ UNCHANGED SearchRest

NextSearch == SearchEnter \/ SearchPage \/ SearchReturn

\* the loop is sequential code and every request has a timeout: a step that can be
\* taken is taken
SpecSearch == InitSearch /\ [][NextSearch]_vars /\ WF_vars(NextSearch)

\* what holds of the requests issued so far
SearchSafe ==
    "requests" \in DOMAIN ret =>
        /\ Len(ret.requests) <= arg.max_pages
        /\ \A i \in 1..Len(ret.requests) : ret.requests[i] = i
        /\ \A i \in 1..(Len(ret.requests) - 1) : ret.outcomes[i] = "documents"
        /\ (ret.step = 2 /\ ret.outcomes = <<"empty">>) => ret.all_documents = <<>>

\* C28: search_documents terminates after at most max_pages requests, for the pages
\* 1, 2, ... in this order, none after the first page that is empty or whose fetch
\* fails; a result set with nothing in it gives the empty list.
C28_PageCap == [](SearchSafe) /\ <>(ret.step = 2)

\* the cap of a crawl run is reached: ten pages with records, and no eleventh request
C28_Witness ==
    /\ "requests" \in DOMAIN ret
    /\ ret.step = 2
    /\ arg.max_pages = 10
    /\ Len(ret.requests) = 10
    /\ ret.outcomes[10] = "documents"

\* the day last_checked_date of a state file names; -1, before every day, when the
\* file holds none
WatermarkDay(file) ==
    LET w == StoredWatermark(file)
    IN  IF w.kind = "str" /\ IsCalendarDate(w.ymd) THEN date(w.ymd[1], w.ymd[2], w.ymd[3])
        ELSE -1

\* a run of p is under way and past its planning
InRun(p) == pc[p] \notin {"none", "idle"}

\* C29 as claimed: over runs of any kind with a clock that does not go back, from an
\* empty data directory, last_checked_date never moves backwards and is never later
\* than the current date; and an incremental run on the day a run has ended in success
\* is up_to_date and requests no page.
C29_Claim ==
    /\ [](WatermarkDay(state_file) <= today)
    /\ [][WatermarkDay(state_file) <= WatermarkDay(state_file')]_vars
    /\ [](\A p \in Procs :
            (InRun(p) /\ hist[p].mode = "incremental"
                /\ last.status = "success" /\ last.to_date = today) =>
                (hist[p].path = "up_to_date" /\ hist[p].pages = 0))

\* the document numbers a results file holds
NumbersIn(file) == {DnOf(DocsOf(file)[i]) : i \in 1..Len(DocsOf(file))} \ {""}

\* C30 as claimed: no document number is stored in the results files of two years; a
\* run of a scraper built in a later year, a forced run from the epoch too, adds to its
\* results file no document that the file of an earlier year holds.
C30_Claim ==
    \A y1, y2 \in Years :
        y1 < y2 => NumbersIn(results_files[y1]) \cap NumbersIn(results_files[y2]) = {}

====
